---- MODULE Spec2Model ----
(***************************************************************************)
(* Market Data Gateway (src/gateway.py): one supervisor thread that logs   *)
(* in and then blocks in the streaming connection (whose callbacks         *)
(* on_connect, on_close and on_ticks run on that thread), and one daemon   *)
(* thread running command_listener.  The two threads share                 *)
(* subscribed_tokens without a lock, so each handler is split at the       *)
(* points where the other thread can observe or change shared state.       *)
(***************************************************************************)
EXTENDS Integers, Sequences, FiniteSets, TLC

VARIABLES
    sup_pc,             \* position of start(): login / sleep / setup / spawn / connect / running / returned / exited
    lg,                 \* history: perform_login calls and backoff waits so far, outcome of the last call
    access_token,       \* self.access_token
    kws,                \* self.kws: "None" or "ticker"
    kv,                 \* the redis key/value store: key string -> value string
    conn,               \* state of the upstream socket: "closed" or "open"
    up_sub,             \* tokens subscribed on the upstream socket that is open now
    up_full,            \* tokens put in full mode on the upstream socket that is open now
    c_pc,               \* position of on_connect on the connection thread
    subscribed_tokens,  \* self.subscribed_tokens
    l_pc,               \* position of command_listener
    new_tokens,         \* the local new_tokens of command_listener
    covered,            \* history: tokens passed to a listener subscribe and set_mode call that both returned
    submitted,          \* history: tokens of every well-formed SUBSCRIBE command taken so far
    last,               \* history: the command being handled (or handled last) and its upstream calls
    oc,                 \* history: the current (or last) run of on_connect and its upstream calls
    wire,               \* what the last pipe.execute() sent to redis, in order
    batch,              \* history: the last tick batch and whether on_ticks completed
    latest              \* history: per token, the last_price of the most recent priced tick processed

vars == <<sup_pc, lg, access_token, kws, kv, conn, up_sub, up_full, c_pc,
          subscribed_tokens, l_pc, new_tokens, covered, submitted, last, oc,
          wire, batch, latest>>

supVars   == <<sup_pc, lg, access_token, kws>>
connVars  == <<conn, up_sub, up_full, c_pc, oc>>
lsnVars   == <<l_pc, new_tokens, covered, submitted, last>>
tickVars  == <<wire, batch, latest>>

(***************************************************************************)
(* Bounds of the model.                                                    *)
(***************************************************************************)
MaxTokens   == 2   \* length of the tokens list of one command
MaxBatchLen == 2   \* ticks in one batch
MaxLoginFailures == 3   \* failed logins before the login that succeeds

(***************************************************************************)
(* Helpers on sequences and sets.                                          *)
(***************************************************************************)
Range(s) == { s[i] : i \in DOMAIN s }

SeqsUpTo(S, n) == UNION { [1..k -> S] : k \in 0..n }

NoDuplicates(s) == \A i, j \in DOMAIN s : i # j => s[i] # s[j]

\* list(a_set): every element once, in an order the set's hashing decides
ListOf(S) == { s \in [1..Cardinality(S) -> S] : Range(s) = S }

(***************************************************************************)
(* int(t) for a JSON string t, as Python computes it: surrounding          *)
(* whitespace is stripped, one sign is allowed, and at least one decimal   *)
(* digit must follow; anything else raises ValueError.  A string is a      *)
(* sequence of one-character strings.  (A JSON integer coerces like its    *)
(* decimal string.)                                                        *)
(***************************************************************************)
Digits == <<"0", "1", "2", "3", "4", "5", "6", "7", "8", "9">>

IsDigit(c) == \E d \in DOMAIN Digits : Digits[d] = c

DigitVal(c) == (CHOOSE d \in DOMAIN Digits : Digits[d] = c) - 1

IsSpace(c) == c = " "

RECURSIVE LStrip(_)
LStrip(s) == IF s # <<>> /\ IsSpace(Head(s)) THEN LStrip(Tail(s)) ELSE s

RECURSIVE RStrip(_)
RStrip(s) == IF s # <<>> /\ IsSpace(s[Len(s)]) THEN RStrip(SubSeq(s, 1, Len(s) - 1)) ELSE s

Strip(s) == RStrip(LStrip(s))

RECURSIVE DigitsVal(_, _)
DigitsVal(s, acc) == IF s = <<>> THEN acc ELSE DigitsVal(Tail(s), 10 * acc + DigitVal(Head(s)))

Unsigned(s) == IF s # <<>> /\ Head(s) \in {"+", "-"} THEN Tail(s) ELSE s

IntOk(t) == LET u == Unsigned(Strip(t)) IN u # <<>> /\ \A i \in DOMAIN u : IsDigit(u[i])

IntOf(t) == LET s == Strip(t)
                m == DigitsVal(Unsigned(s), 0)
            IN  IF s # <<>> /\ Head(s) = "-" THEN 0 - m ELSE m

(***************************************************************************)
(* Messages on the command channel.  type is the redis pub/sub message     *)
(* type; json says what json.loads makes of the data: "invalid" (raises),  *)
(* "not_object" (a list, string, number or null) or "object"; action is    *)
(* data.get('action') ("None" when absent); tokens_kind says what          *)
(* data.get('tokens', []) is: "absent", a "list" of strings, one JSON      *)
(* "string", or "null"/a number ("not_iterable").                          *)
(***************************************************************************)
RawTokens == { <<"1">>, <<" ", "2">>, <<"x">> }

\* tokens values that are one JSON string instead of a list
TokenStrings == { <<"1", "2">>, <<"2", "x">> }

Chars(str) == { <<str[i]>> : i \in DOMAIN str }

\* every instrument token a message of the model can name
Tokens == { IntOf(t) : t \in { r \in RawTokens \cup UNION { Chars(x) : x \in TokenStrings } : IntOk(r) } }

NoTokens == <<>>

Messages ==
    { [type |-> "subscribe", json |-> "object", action |-> "None",
       tokens_kind |-> "absent", tokens |-> NoTokens] }
    \cup
    { [type |-> "message", json |-> j, action |-> "None",
       tokens_kind |-> "absent", tokens |-> NoTokens] : j \in {"invalid", "not_object"} }
    \cup
    { [type |-> "message", json |-> "object", action |-> "UNSUBSCRIBE",
       tokens_kind |-> "list", tokens |-> << <<"1">> >>],
      [type |-> "message", json |-> "object", action |-> "None",
       tokens_kind |-> "absent", tokens |-> NoTokens] }
    \cup
    { [type |-> "message", json |-> "object", action |-> "SUBSCRIBE",
       tokens_kind |-> k, tokens |-> NoTokens] : k \in {"absent", "not_iterable"} }
    \cup
    { [type |-> "message", json |-> "object", action |-> "SUBSCRIBE",
       tokens_kind |-> "list", tokens |-> ts] : ts \in SeqsUpTo(RawTokens, MaxTokens) }
    \cup
    { [type |-> "message", json |-> "object", action |-> "SUBSCRIBE",
       tokens_kind |-> "string", tokens |-> <<t>>] : t \in TokenStrings }

\* the items a `for t in tokens` loop sees: the elements of a list, the
\* characters of a string
Items(m) ==
    IF m.tokens_kind = "string"
    THEN [i \in 1..Len(m.tokens[1]) |-> <<m.tokens[1][i]>>]
    ELSE m.tokens

\* int(t): the integer, or ok = FALSE when it raises ValueError
Coerce(t) == IF IntOk(t) THEN [ok |-> TRUE, n |-> IntOf(t)] ELSE [ok |-> FALSE, n |-> 0]

RECURSIVE CoerceAll(_)
CoerceAll(items) ==
    IF items = <<>> THEN <<>> ELSE <<Coerce(Head(items))>> \o CoerceAll(Tail(items))

\* the comprehension without its `if int(t) not in self.subscribed_tokens`
RECURSIVE Comprehension_unfiltered(_, _)
Comprehension_unfiltered(ints, registry) ==
    IF ints = <<>> THEN [err |-> FALSE, val |-> <<>>]
    ELSE IF ~Head(ints).ok THEN [err |-> TRUE, val |-> <<>>]
    ELSE LET rest == Comprehension_unfiltered(Tail(ints), registry)
         IN  IF rest.err THEN rest
             ELSE [err |-> FALSE, val |-> <<Head(ints).n>> \o rest.val]

\* [int(t) for t in tokens if int(t) not in registry], ints being int(t) of
\* each item in turn: err when some int(t) raises (the comprehension is
\* abandoned), else the list built
RECURSIVE Comprehension(_, _)
Comprehension(ints, registry) ==
    IF ints = <<>> THEN [err |-> FALSE, val |-> <<>>]
    ELSE IF ~Head(ints).ok THEN [err |-> TRUE, val |-> <<>>]
    ELSE LET rest == Comprehension(Tail(ints), registry)
         IN  IF rest.err THEN rest
             ELSE IF Head(ints).n \notin registry
                  THEN [err |-> FALSE, val |-> <<Head(ints).n>> \o rest.val]
                  ELSE rest

\* the tokens of a command that coerce to an integer, one by one
Coercible(ints) == { ints[i].n : i \in { j \in DOMAIN ints : ints[j].ok } }

\* a payload the data model rejects: not JSON, not an object, or an object
\* whose tokens is not a list
Malformed(m) ==
    /\ m.type = "message"
    /\ \/ m.json # "object"
       \/ m.tokens_kind \in {"not_iterable", "string"}

\* a SUBSCRIBE command of the expected shape whose tokens all coerce
WellFormed(m) ==
    /\ m.type = "message" /\ m.json = "object" /\ m.action = "SUBSCRIBE"
    /\ m.tokens_kind \in {"list", "absent"}
    /\ \A i \in DOMAIN m.tokens : IntOk(m.tokens[i])

\* a command of the expected shape whose action is not SUBSCRIBE, or absent
OtherAction(m) ==
    /\ m.type = "message" /\ m.json = "object" /\ m.action # "SUBSCRIBE"
    /\ m.tokens_kind \in {"list", "absent"}

\* a message with what does not depend on the state worked out: int(t) of
\* each item, and what kind of message it is
Row(m) ==
    LET ints == CoerceAll(Items(m))
        sub  == m.type = "message" /\ m.json = "object" /\ m.action = "SUBSCRIBE"
                /\ m.tokens_kind # "not_iterable"
    IN  [type |-> m.type, json |-> m.json, action |-> m.action,
         tokens_kind |-> m.tokens_kind, ints |-> ints,
         malformed  |-> Malformed(m),
         wellformed |-> WellFormed(m),
         other_action |-> OtherAction(m),
         bad_token  |-> sub /\ \E i \in DOMAIN ints : ~ints[i].ok,
         want       |-> IF sub THEN Coercible(ints) ELSE {}]

RECURSIVE Rows(_)
Rows(S) == IF S = {} THEN <<>>
           ELSE LET m == CHOOSE x \in S : TRUE IN <<Row(m)>> \o Rows(S \ {m})

\* the messages of the model, in some fixed order
MessageList == Rows(Messages)

\* the try block without its `if action == 'SUBSCRIBE'`: every action subscribes
Parse_any_action(m, registry) ==
    IF m.type # "message" THEN [out |-> "skip", val |-> <<>>]
    ELSE IF m.json # "object" \/ m.tokens_kind = "not_iterable" THEN [out |-> "raise", val |-> <<>>]
    ELSE LET c == Comprehension(m.ints, registry)
         IN  IF c.err THEN [out |-> "raise", val |-> <<>>]
             ELSE [out |-> "tokens", val |-> c.val]

\* how the try block of command_listener treats a message:
\*   "skip"   the message is not of type 'message'
\*   "raise"  an exception is raised before any upstream call
\*   "ignore" the action is not SUBSCRIBE
\*   "tokens" new_tokens was computed
Parse(m, registry) ==
    IF m.type # "message" THEN [out |-> "skip", val |-> <<>>]
    ELSE IF m.json # "object" THEN [out |-> "raise", val |-> <<>>]
    ELSE IF m.action # "SUBSCRIBE" THEN [out |-> "ignore", val |-> <<>>]
    ELSE IF m.tokens_kind = "not_iterable" THEN [out |-> "raise", val |-> <<>>]
    ELSE LET c == Comprehension(m.ints, registry)
         IN  IF c.err THEN [out |-> "raise", val |-> <<>>]
             ELSE [out |-> "tokens", val |-> c.val]

(***************************************************************************)
(* Initial state: the object after __init__, before start().               *)
(***************************************************************************)
\* the redis store with no key set
EmptyStore == [k \in {} |-> ""]

\* SET key value on the store
StoreSet(store, key, value) ==
    [k \in DOMAIN store \cup {key} |-> IF k = key THEN value ELSE store[k]]

\* history of one message: how the parse ended (cls), what kind of message it
\* was, the tokens of it that coerce (want), the registry and the socket when
\* it was taken (before, live), whether the message before it was the same
\* well-formed command (repeat) or a malformed one (after_bad), and the
\* upstream calls made for it: operation, tokens passed (as a set), length of
\* the list passed, and whether the call was delivered
NoCommand == [cls |-> "none", malformed |-> FALSE, wellformed |-> FALSE,
              other_action |-> FALSE, bad_token |-> FALSE, want |-> {}, before |-> {}, live |-> FALSE,
              repeat |-> FALSE, after_bad |-> FALSE, calls |-> <<>>, done |-> TRUE]

\* history of one run of on_connect: whether `if self.subscribed_tokens`
\* found the registry empty, and the upstream calls made: operation, tokens
\* passed (as a set), length of the list passed, registry at the time of the
\* call
NoConnect == [ran |-> FALSE, empty |-> TRUE, calls |-> <<>>, done |-> TRUE]

NoBatch == [ticks |-> <<>>, completed |-> TRUE]

\* history of the login loop: nothing tried yet
NoLogin == [attempts |-> 0, sleeps |-> 0, waited |-> 0, out |-> "none"]

Init ==
    /\ sup_pc = "login"
    /\ lg = NoLogin
    /\ access_token = "None"
    /\ kws = "None"
    /\ kv = EmptyStore
    /\ conn = "closed"
    /\ up_sub = {}
    /\ up_full = {}
    /\ c_pc = "idle"
    /\ subscribed_tokens = {}
    /\ l_pc = "unstarted"
    /\ new_tokens = <<>>
    /\ covered = {}
    /\ submitted = {}
    /\ last = NoCommand
    /\ oc = NoConnect
    /\ wire = <<>>
    /\ batch = NoBatch
    /\ latest = [t \in Tokens |-> 0]

(***************************************************************************)
(* perform_login and start(): the supervisor thread.                       *)
(***************************************************************************)
SessionTokens == { "tokA" }

\* the key perform_login stores the access token under
AccessTokenKey == "ZERODHA_ACCESS_TOKEN"

\* time.sleep(30)
BackoffSeconds == 30

LoginOutcomes == { "no_request_token", "exchange_raises", "store_raises", "ok" }

\* perform_login without its self.r.set(...) line
perform_login_unsaved(out, tok) ==
    CASE out = "ok" -> [ret |-> TRUE, access_token |-> tok, kv |-> kv]
      [] OTHER -> [ret |-> FALSE, access_token |-> access_token, kv |-> kv]

\* perform_login: what it returns and what it leaves in self.access_token and
\* in the store.  out says how far the try block got, tok is the access token
\* generate_session returns.
perform_login(out, tok) ==
    CASE out = "no_request_token" ->
            [ret |-> FALSE, access_token |-> access_token, kv |-> kv]
      [] out = "exchange_raises" ->
            [ret |-> FALSE, access_token |-> access_token, kv |-> kv]
      [] out = "store_raises" ->
            [ret |-> FALSE, access_token |-> tok, kv |-> kv]
      [] OTHER ->
            [ret |-> TRUE, access_token |-> tok,
             kv |-> StoreSet(kv, AccessTokenKey, tok)]

\* the login loop going on without a wait: `continue` in place of the sleep
login_next_no_backoff(ret) == IF ret THEN "setup" ELSE "login"

\* start(), step 1: `if self.perform_login(): break`, else the backoff
login_next(ret) == IF ret THEN "setup" ELSE "sleep"

\* start(), step 1: one turn of the login loop
Login ==
    /\ sup_pc = "login"
    /\ \E out \in LoginOutcomes, tok \in SessionTokens :
         LET r == perform_login(out, tok) IN
         /\ out = "ok" \/ lg.sleeps < MaxLoginFailures
         /\ access_token' = r.access_token
         /\ kv' = r.kv
         /\ sup_pc' = login_next(r.ret)
         /\ lg' = [lg EXCEPT !.attempts = @ + 1, !.out = out]
    /\ UNCHANGED <<kws, subscribed_tokens>>
    /\ UNCHANGED <<connVars, lsnVars, tickVars>>

\* start(), step 1: time.sleep(30) after a failed login
Sleep ==
    /\ sup_pc = "sleep"
    /\ sup_pc' = "login"
    /\ lg' = [lg EXCEPT !.sleeps = @ + 1, !.waited = @ + BackoffSeconds]
    /\ UNCHANGED <<access_token, kws, kv, subscribed_tokens>>
    /\ UNCHANGED <<connVars, lsnVars, tickVars>>

\* start(), step 2: the ticker is created and the callbacks registered
Setup ==
    /\ sup_pc = "setup"
    /\ kws' = "ticker"
    /\ sup_pc' = "spawn"
    /\ UNCHANGED <<lg, access_token, kv, subscribed_tokens>>
    /\ UNCHANGED <<connVars, lsnVars, tickVars>>

\* start(), step 3: the command listener thread is started
Spawn ==
    /\ sup_pc = "spawn"
    /\ l_pc' = "idle"
    /\ sup_pc' = "connect"
    /\ UNCHANGED <<lg, access_token, kws, kv, subscribed_tokens>>
    /\ UNCHANGED <<new_tokens, covered, submitted, last>>
    /\ UNCHANGED <<connVars, tickVars>>

\* start(), step 4: kws.connect(threaded=False) blocks the supervisor
ConnectCall ==
    /\ sup_pc = "connect"
    /\ sup_pc' = "running"
    /\ UNCHANGED <<lg, access_token, kws, kv, subscribed_tokens>>
    /\ UNCHANGED <<connVars, lsnVars, tickVars>>

\* the upstream rejects the session for good (the access token is dead): the
\* vendor client stops trying and kws.connect(threaded=False) returns
ConnectReturns ==
    /\ sup_pc = "running"
    /\ conn = "closed"
    /\ c_pc = "idle"
    /\ sup_pc' = "returned"
    /\ UNCHANGED <<lg, access_token, kws, kv, subscribed_tokens>>
    /\ UNCHANGED <<connVars, lsnVars, tickVars>>

\* where start() goes on after kws.connect has returned: it has no statement
\* left, so it returns to the main module, which ends the process (the other
\* threads are daemons)
after_connect == "exited"

StartReturns ==
    /\ sup_pc = "returned"
    /\ sup_pc' = after_connect
    /\ UNCHANGED <<lg, access_token, kws, kv, subscribed_tokens>>
    /\ UNCHANGED <<connVars, lsnVars, tickVars>>

\* the process has not ended
ProcessAlive == sup_pc # "exited"

(***************************************************************************)
(* The upstream socket and on_connect / on_close, on the connection        *)
(* thread.  A fresh socket knows no subscription.  The callbacks run while *)
(* the socket is open, so their upstream calls are delivered.              *)
(***************************************************************************)
\* the socket opens (first connect or reconnect); on_connect is entered
Connect ==
    /\ sup_pc = "running"
    /\ conn = "closed"
    /\ conn' = "open"
    /\ up_sub' = {}
    /\ up_full' = {}
    /\ c_pc' = "check"
    /\ oc' = [ran |-> TRUE, empty |-> TRUE, calls |-> <<>>, done |-> FALSE]
    /\ UNCHANGED <<supVars, kv, subscribed_tokens>>
    /\ UNCHANGED <<lsnVars, tickVars>>

\* on_connect: `if self.subscribed_tokens:`
on_connect_check(registry) == IF registry # {} THEN "subscribe" ELSE "idle"

OnConnectCheck ==
    /\ c_pc = "check"
    /\ c_pc' = on_connect_check(subscribed_tokens)
    /\ oc' = [oc EXCEPT !.empty = (subscribed_tokens = {}),
                        !.done = (c_pc' = "idle")]
    /\ UNCHANGED <<conn, up_sub, up_full>>
    /\ UNCHANGED <<supVars, kv, subscribed_tokens>>
    /\ UNCHANGED <<lsnVars, tickVars>>

\* on_connect passing one token of the registry instead of all of them
on_connect_tokens_first(registry) == { <<t>> : t \in registry }

\* on_connect: the argument list(self.subscribed_tokens) of an upstream call
on_connect_tokens(registry) == ListOf(registry)

\* on_connect: ws.subscribe(list(self.subscribed_tokens))
OnConnectSubscribe ==
    /\ c_pc = "subscribe"
    /\ \E toks \in on_connect_tokens(subscribed_tokens) :
         /\ up_sub' = up_sub \cup Range(toks)
         /\ oc' = [oc EXCEPT !.calls = Append(@, [op |-> "subscribe", toks |-> Range(toks),
                                                   n |-> Len(toks), reg |-> subscribed_tokens])]
    /\ c_pc' = "set_mode"
    /\ UNCHANGED <<conn, up_full>>
    /\ UNCHANGED <<supVars, kv, subscribed_tokens>>
    /\ UNCHANGED <<lsnVars, tickVars>>

\* on_connect: ws.set_mode(ws.MODE_FULL, list(self.subscribed_tokens))
OnConnectSetMode ==
    /\ c_pc = "set_mode"
    /\ \E toks \in on_connect_tokens(subscribed_tokens) :
         /\ up_full' = up_full \cup Range(toks)
         /\ oc' = [oc EXCEPT !.calls = Append(@, [op |-> "set_mode", toks |-> Range(toks),
                                                   n |-> Len(toks), reg |-> subscribed_tokens]),
                             !.done = TRUE]
    /\ c_pc' = "idle"
    /\ UNCHANGED <<conn, up_sub>>
    /\ UNCHANGED <<supVars, kv, subscribed_tokens>>
    /\ UNCHANGED <<lsnVars, tickVars>>

\* the socket closes; on_close only logs
Disconnect ==
    /\ conn = "open"
    /\ c_pc = "idle"
    /\ conn' = "closed"
    /\ up_sub' = {}
    /\ up_full' = {}
    /\ UNCHANGED <<c_pc, oc>>
    /\ UNCHANGED <<supVars, kv, subscribed_tokens>>
    /\ UNCHANGED <<lsnVars, tickVars>>

(***************************************************************************)
(* command_listener, on its own thread.  One message is handled in up to   *)
(* four steps: the parse (up to the `if new_tokens and self.kws`), the     *)
(* upstream subscribe, the upstream set_mode, and the registry update.     *)
(* An upstream call raises when the socket is not open.                    *)
(***************************************************************************)
\* the exception swallowed where it is raised, the try block going on to
\* its last statement
on_command_error_carries_on == "update"

\* where the listener continues after an exception inside the try block:
\* the except clause is inside the for loop, so with the next message
on_command_error == "idle"

\* `if new_tokens and self.kws:`
calls_upstream(toks, ticker) == toks # <<>> /\ ticker # "None"

\* whether an upstream call made now is delivered (else it raises)
upstream_ok == conn = "open"

\* the registry replaced by the new tokens: `=` in place of update
registry_replace(registry, toks) == Range(toks)

\* self.subscribed_tokens.update(new_tokens)
registry_update(registry, toks) == registry \cup Range(toks)

\* where the listener goes on after self.kws.subscribe(new_tokens)
after_subscribe(ok) == IF ok THEN "set_mode" ELSE on_command_error

\* a failure of set_mode swallowed on the spot
after_set_mode_swallowed(ok) == "update"

\* where the listener goes on after self.kws.set_mode(...)
after_set_mode(ok) == IF ok THEN "update" ELSE on_command_error

Summary(m, p) ==
    [cls        |-> p.out,
     malformed  |-> m.malformed,
     wellformed |-> m.wellformed,
     other_action |-> m.other_action,
     bad_token  |-> m.bad_token,
     want       |-> m.want,
     before     |-> subscribed_tokens,
     live       |-> conn = "open",
     repeat     |-> m.wellformed /\ last.wellformed /\ last.want = m.want,
     after_bad  |-> last.malformed,
     calls      |-> <<>>,
     done       |-> FALSE]

\* for message in pubsub.listen(): ... up to the upstream calls
Receive ==
    /\ ProcessAlive
    /\ l_pc = "idle"
    /\ \E i \in DOMAIN MessageList :
         LET m == MessageList[i]
             p == Parse(m, subscribed_tokens)
         IN
         /\ new_tokens' = IF p.out = "tokens" THEN p.val ELSE new_tokens
         /\ l_pc' = IF p.out = "raise" THEN on_command_error
                    ELSE IF p.out = "tokens" /\ calls_upstream(p.val, kws) THEN "subscribe"
                    ELSE "idle"
         /\ last' = [Summary(m, p) EXCEPT !.done = (l_pc' # "subscribe")]
         /\ submitted' = IF m.wellformed THEN submitted \cup m.want ELSE submitted
    /\ covered' = covered
    /\ UNCHANGED <<supVars, kv, subscribed_tokens>>
    /\ UNCHANGED <<connVars, tickVars>>

\* self.kws.subscribe(new_tokens)
LSubscribe ==
    /\ ProcessAlive
    /\ l_pc = "subscribe"
    /\ up_sub' = IF upstream_ok THEN up_sub \cup Range(new_tokens) ELSE up_sub
    /\ l_pc' = after_subscribe(upstream_ok)
    /\ last' = [last EXCEPT !.calls = Append(@, [op |-> "subscribe", toks |-> Range(new_tokens),
                                                  n |-> Len(new_tokens), ok |-> upstream_ok]),
                            !.done = ~upstream_ok]
    /\ UNCHANGED <<new_tokens, covered, submitted>>
    /\ UNCHANGED <<conn, up_full, c_pc, oc>>
    /\ UNCHANGED <<supVars, kv, subscribed_tokens, tickVars>>

\* self.kws.set_mode(self.kws.MODE_FULL, new_tokens)
LSetMode ==
    /\ ProcessAlive
    /\ l_pc = "set_mode"
    /\ up_full' = IF upstream_ok THEN up_full \cup Range(new_tokens) ELSE up_full
    /\ l_pc' = after_set_mode(upstream_ok)
    /\ covered' = IF upstream_ok THEN covered \cup Range(new_tokens) ELSE covered
    /\ last' = [last EXCEPT !.calls = Append(@, [op |-> "set_mode", toks |-> Range(new_tokens),
                                                  n |-> Len(new_tokens), ok |-> upstream_ok]),
                            !.done = ~upstream_ok]
    /\ UNCHANGED <<new_tokens, submitted>>
    /\ UNCHANGED <<conn, up_sub, c_pc, oc>>
    /\ UNCHANGED <<supVars, kv, subscribed_tokens, tickVars>>

\* self.subscribed_tokens.update(new_tokens)
LUpdate ==
    /\ ProcessAlive
    /\ l_pc = "update"
    /\ subscribed_tokens' = registry_update(subscribed_tokens, new_tokens)
    /\ l_pc' = "idle"
    /\ last' = [last EXCEPT !.done = TRUE]
    /\ UNCHANGED <<new_tokens, covered, submitted>>
    /\ UNCHANGED <<supVars, kv, connVars, tickVars>>

(***************************************************************************)
(* on_ticks, on the connection thread.  A tick is the dict the vendor      *)
(* client delivers: it always carries instrument_token, may carry          *)
(* last_price, and json.dumps raises TypeError on it when a vendor field   *)
(* holds a value JSON cannot encode (serializable = FALSE).                *)
(***************************************************************************)
Prices == { 5, 7 }

NoPrice == 0

Ticks ==
    [instrument_token : Tokens, last_price : Prices \cup {NoPrice}, serializable : {TRUE}]
    \cup
    [instrument_token : {1}, last_price : {7, NoPrice}, serializable : {FALSE}]

HasPrice(tick) == tick.last_price # NoPrice

\* f"LTP:{token}"
LTPKey(token) == "LTP:" \o ToString(token)

\* the value redis stores for a number: its decimal text
Encode(value) == ToString(value)

\* json.dumps(tick) of a tick that can be encoded
Dumps(tick) ==
    "{\"instrument_token\": " \o ToString(tick.instrument_token)
    \o (IF HasPrice(tick) THEN ", \"last_price\": " \o ToString(tick.last_price) ELSE "")
    \o "}"

\* the PUBLISH moved under `if 'last_price' in tick`
tick_commands_priced_only(tick) ==
    IF HasPrice(tick)
    THEN << [op |-> "SET", key |-> LTPKey(tick.instrument_token),
             val |-> Encode(tick.last_price)],
            [op |-> "PUBLISH", key |-> "market_ticks", val |-> Dumps(tick)] >>
    ELSE << >>

\* the commands one tick adds to the pipeline: the SET only with last_price,
\* the PUBLISH always
tick_commands(tick) ==
    (IF HasPrice(tick)
     THEN << [op |-> "SET", key |-> LTPKey(tick.instrument_token),
              val |-> Encode(tick.last_price)] >>
     ELSE << >>)
    \o << [op |-> "PUBLISH", key |-> "market_ticks", val |-> Dumps(tick)] >>

\* the loop with the bad tick skipped and what was queued still executed
RECURSIVE queue_ticks_partial(_, _)
queue_ticks_partial(ticks, pipe) ==
    IF ticks = <<>> THEN [err |-> FALSE, pipe |-> pipe]
    ELSE IF ~Head(ticks).serializable THEN queue_ticks_partial(Tail(ticks), pipe)
    ELSE queue_ticks_partial(Tail(ticks), pipe \o tick_commands(Head(ticks)))

\* the loop queueing each tick's commands in front of those queued before
RECURSIVE queue_ticks_lifo(_, _)
queue_ticks_lifo(ticks, pipe) ==
    IF ticks = <<>> THEN [err |-> FALSE, pipe |-> pipe]
    ELSE IF ~Head(ticks).serializable THEN [err |-> TRUE, pipe |-> pipe]
    ELSE queue_ticks_lifo(Tail(ticks), tick_commands(Head(ticks)) \o pipe)

\* the for loop of on_ticks: err when json.dumps raised (the loop and the
\* handler are abandoned), else the pipeline that was built
RECURSIVE queue_ticks(_, _)
queue_ticks(ticks, pipe) ==
    IF ticks = <<>> THEN [err |-> FALSE, pipe |-> pipe]
    ELSE IF ~Head(ticks).serializable THEN [err |-> TRUE, pipe |-> pipe]
    ELSE queue_ticks(Tail(ticks), pipe \o tick_commands(Head(ticks)))

\* a SET that does not overwrite (SETNX): the first write of a key wins
RECURSIVE execute_first_wins(_, _)
execute_first_wins(pipe, store) ==
    IF pipe = <<>> THEN store
    ELSE execute_first_wins(Tail(pipe),
                 IF Head(pipe).op = "SET" /\ Head(pipe).key \notin DOMAIN store
                 THEN StoreSet(store, Head(pipe).key, Head(pipe).val)
                 ELSE store)

\* pipe.execute(): the queued commands reach redis in the order queued
RECURSIVE execute(_, _)
execute(pipe, store) ==
    IF pipe = <<>> THEN store
    ELSE execute(Tail(pipe),
                 IF Head(pipe).op = "SET"
                 THEN StoreSet(store, Head(pipe).key, Head(pipe).val)
                 ELSE store)

\* history: the last price seen per token after the ticks, given cur before
RECURSIVE LatestAfter(_, _)
LatestAfter(ticks, cur) ==
    IF ticks = <<>> THEN cur
    ELSE LatestAfter(Tail(ticks),
                     IF HasPrice(Head(ticks))
                     THEN [cur EXCEPT ![Head(ticks).instrument_token] = Head(ticks).last_price]
                     ELSE cur)

\* a batch as the vendor client delivers it, with the pipeline its loop builds
QueuedBatch(ticks) == [ticks |-> ticks, q |-> queue_ticks(ticks, <<>>)]

\* the ticks of the model, in some fixed order
RECURSIVE TickList(_)
TickList(S) == IF S = {} THEN <<>>
               ELSE LET t == CHOOSE x \in S : TRUE IN <<t>> \o TickList(S \ {t})

\* the batches that are one of the given batches plus one of the first k ticks
RECURSIVE ExtendBy(_, _, _)
ExtendBy(rows, list, k) ==
    IF k = 0 THEN <<>>
    ELSE ExtendBy(rows, list, k - 1)
         \o [j \in DOMAIN rows |-> QueuedBatch(Append(rows[j].ticks, list[k]))]

RECURSIVE BatchesOfLen(_)
BatchesOfLen(n) ==
    IF n = 0 THEN << QueuedBatch(<<>>) >>
    ELSE ExtendBy(BatchesOfLen(n - 1), TickList(Ticks), Cardinality(Ticks))

RECURSIVE BatchesUpTo(_)
BatchesUpTo(n) == IF n = 0 THEN <<>> ELSE BatchesUpTo(n - 1) \o BatchesOfLen(n)

\* the non-empty batches of the model, in some fixed order
BatchList == BatchesUpTo(MaxBatchLen)

OnTicks ==
    /\ conn = "open"
    /\ c_pc = "idle"
    /\ \E i \in DOMAIN BatchList :
         LET ticks == BatchList[i].ticks
             q == BatchList[i].q
         IN
         /\ kv' = IF q.err THEN kv ELSE execute(q.pipe, kv)
         /\ wire' = IF q.err THEN <<>> ELSE q.pipe
         /\ batch' = [ticks |-> ticks, completed |-> ~q.err]
         /\ latest' = IF q.err THEN latest ELSE LatestAfter(ticks, latest)
    /\ UNCHANGED <<supVars, subscribed_tokens>>
    /\ UNCHANGED <<connVars, lsnVars>>

(***************************************************************************)
(* Specifications.  Next is the whole gateway.  The tick path shares no    *)
(* state with the subscription path (on_ticks reads and writes only        *)
(* redis), and the login loop is over before the listener and the          *)
(* connection exist, so the parts are also checked apart: SpecControl is   *)
(* the gateway without tick delivery, SpecTicks the gateway without        *)
(* command delivery, both for a run whose first login succeeds;            *)
(* SpecSupervisor is the gateway with every outcome of the login loop and  *)
(* without command delivery.                                               *)
(***************************************************************************)
Supervisor == Login \/ Sleep \/ Setup \/ Spawn \/ ConnectCall \/ ConnectReturns \/ StartReturns

Connection == Connect \/ OnConnectCheck \/ OnConnectSubscribe \/ OnConnectSetMode \/ Disconnect

Listener == Receive \/ LSubscribe \/ LSetMode \/ LUpdate

Next == Supervisor \/ Connection \/ Listener \/ OnTicks

Spec == Init /\ [][Next]_vars

\* a turn of the login loop in which perform_login returns True
LoginSucceeds == Login /\ sup_pc' = "setup"

Startup == LoginSucceeds \/ Setup \/ Spawn \/ ConnectCall

NextControl == Startup \/ ConnectReturns \/ StartReturns \/ Connection \/ Listener

SpecControl == Init /\ [][NextControl]_vars

NextTicks == Startup \/ Connect \/ OnConnectCheck \/ Disconnect \/ OnTicks

SpecTicks == Init /\ [][NextTicks]_vars

NextSupervisor == Supervisor \/ Connect \/ OnConnectCheck \/ Disconnect \/ OnTicks

SpecSupervisor == Init /\ [][NextSupervisor]_vars

(***************************************************************************)
(* Properties of the subscription path (checked under SpecControl).        *)
(***************************************************************************)
\* the listener is between two messages
ListenerIdle == l_pc = "idle" /\ last.done

\* C1: after any sequence of SUBSCRIBE commands, live or not, the registry
\* equals the union of all tokens submitted in those commands.
C1_RegistryIsUnionOfSubmitted ==
    ListenerIdle => subscribed_tokens = submitted

\* C2: the tokens of a SUBSCRIBE command that arrived while the socket was
\* closed are recorded in the registry, and once on_connect has run on the
\* next connection they are subscribed there in full mode.
C2_OfflineTokensRecordedAndResubscribed ==
    (last.wellformed /\ ~last.live /\ last.done) =>
        /\ last.want \subseteq subscribed_tokens
        /\ (conn = "open" /\ c_pc = "idle") => last.want \subseteq (up_sub \cap up_full)

C4_BadTokenSkipsOnlyThatToken ==
    (last.bad_token /\ ~last.malformed /\ last.done /\ last.live /\ conn = "open") =>
        /\ last.want \subseteq subscribed_tokens
        /\ (last.want \ last.before) \subseteq up_sub

\* C5: a malformed payload (not JSON, not an object, or an object whose
\* tokens is not a list) leaves the registry unchanged, has no upstream
\* subscribe or set_mode call delivered, and the listener goes on to the
\* next message.
C5_MalformedPayloadIsSkipped ==
    last.malformed =>
        /\ subscribed_tokens = last.before
        /\ \A k \in DOMAIN last.calls : ~last.calls[k].ok
        /\ last.done => l_pc = "idle"

\* C6: the newly-added list of a SUBSCRIBE command, the one passed to the
\* upstream calls, holds each new token exactly once.
C6_NewlyAddedHasNoDuplicates ==
    (last.wellformed /\ last.cls = "tokens") =>
        /\ NoDuplicates(new_tokens)
        /\ Range(new_tokens) = last.want \ last.before
        /\ \A k \in DOMAIN last.calls : last.calls[k].n = Cardinality(last.calls[k].toks)

\* C7: a SUBSCRIBE command with the same token set as the command before it
\* has an empty newly-added list, makes no upstream call and leaves the
\* registry as it was.
C7_RepeatedCommandAddsNothing ==
    last.repeat =>
        /\ new_tokens = <<>>
        /\ last.calls = <<>>
        /\ subscribed_tokens = last.before

\* C8: every upstream call command_listener makes for a command passes
\* exactly the tokens of that command that were not in the registry before
\* it (never one that was); a command with no such token makes no call; the
\* calls are one subscribe, then one set_mode.
C8_IncrementalCallsCoverNewTokensOnly ==
    /\ Len(last.calls) <= 2
    /\ \A k \in DOMAIN last.calls :
         /\ last.calls[k].op = (IF k = 1 THEN "subscribe" ELSE "set_mode")
         /\ last.calls[k].toks = last.want \ last.before
         /\ last.calls[k].toks # {}
         /\ last.calls[k].toks \cap last.before = {}
    /\ (last.want \ last.before = {}) => last.calls = <<>>
    /\ (last.cls # "tokens") => last.calls = <<>>

\* a command naming a token already in the registry and a new one, for which
\* both upstream calls were made and delivered
C8_Witness ==
    /\ last.done /\ Len(last.calls) = 2
    /\ last.calls[1].ok /\ last.calls[2].ok
    /\ last.before # {}
    /\ last.want \cap last.before # {}
    /\ last.want \ last.before # {}
    /\ subscribed_tokens = last.before \cup last.want

(***************************************************************************)
(* Properties of the tick path (checked under SpecTicks).                  *)
(***************************************************************************)
Publishes(cmds) == SelectSeq(cmds, LAMBDA c : c.op = "PUBLISH")

Sets(cmds) == SelectSeq(cmds, LAMBDA c : c.op = "SET")

Priced(ticks) == SelectSeq(ticks, HasPrice)

InLoginLoop == sup_pc \in {"login", "sleep"}

\* C11: start() goes on calling perform_login for as long as it fails, with
\* one 30-second wait after every failed call and before the next one; the
\* ticker, the command listener and the connection exist only once a call
\* has succeeded, so that n failures and a success make n + 1 calls and n
\* waits before the connection is started.
C11_LoginLoopBacksOffUntilSuccess ==
    /\ lg.waited = lg.sleeps * BackoffSeconds
    /\ (sup_pc = "login") => lg.attempts = lg.sleeps /\ lg.out # "ok"
    /\ (sup_pc = "sleep") => lg.attempts = lg.sleeps + 1 /\ lg.out \notin {"ok", "none"}
    /\ ~InLoginLoop => lg.attempts = lg.sleeps + 1 /\ lg.out = "ok"
    /\ (kws # "None") => ~InLoginLoop /\ sup_pc # "setup"
    /\ (l_pc # "unstarted") => ~InLoginLoop /\ sup_pc \notin {"setup", "spawn"}
    /\ (conn = "open" \/ oc.ran) => ~InLoginLoop /\ sup_pc \notin {"setup", "spawn", "connect"}

C11_Witness ==
    /\ sup_pc = "running" /\ conn = "open"
    /\ lg.attempts = 4 /\ lg.sleeps = 3 /\ lg.waited = 90

\* C12: once kws.connect has returned to start() because the upstream
\* rejected the session, the next thing the supervisor does is to run
\* perform_login again.
C12_ReloginAfterConnectionEnds ==
    [][(sup_pc = "returned" /\ sup_pc' # sup_pc) => sup_pc' = "login"]_vars

\* C13: perform_login has returned True only with the access token stored
\* under the access-token key; a call that got no request token, or whose
\* code exchange (or store write) raised, has returned False, has left the
\* store as it was, and was a single attempt: the next one comes only after
\* the supervisor's wait.
C13_LoginReportsSuccessOnlyAfterStore ==
    /\ ~InLoginLoop =>
         /\ lg.out = "ok"
         /\ AccessTokenKey \in DOMAIN kv
         /\ kv[AccessTokenKey] = access_token
    /\ (lg.out \in {"no_request_token", "exchange_raises", "store_raises"}) =>
         /\ InLoginLoop
         /\ kv = EmptyStore
         /\ lg.attempts = lg.sleeps + (IF sup_pc = "sleep" THEN 1 ELSE 0)
    /\ (lg.out \in {"no_request_token", "exchange_raises"} /\ lg.attempts = 1) =>
         access_token = "None"

C13_Witness ==
    /\ sup_pc = "running"
    /\ lg.sleeps >= 1
    /\ kv[AccessTokenKey] = access_token

(***************************************************************************)
(* Further properties of the subscription path (checked under              *)
(* SpecControl).                                                           *)
(***************************************************************************)
\* C14: no step removes a token from the registry, whichever thread takes
\* it and whatever the command or the fate of its upstream calls; a step
\* that closes the socket leaves the registry as it is.
C14_RegistryOnlyGrows ==
    [][/\ subscribed_tokens \subseteq subscribed_tokens'
       /\ (conn = "open" /\ conn' = "closed") => subscribed_tokens' = subscribed_tokens]_vars

C14_Witness ==
    /\ conn = "closed" /\ oc.ran
    /\ subscribed_tokens # {}
    /\ last.done /\ last.calls # <<>> /\ ~last.calls[Len(last.calls)].ok

\* the command handled last made both upstream calls and recorded its tokens
Recorded == last.done /\ Len(last.calls) = 2 /\ last.calls[2].ok

\* C15: when a SUBSCRIBE command has been handled and has added tokens to
\* the registry, then, however its steps interleaved with a reconnect, those
\* tokens are subscribed in full mode on the connection that is live once
\* on_connect has run.
C15_NoTokenLostAcrossReconnect ==
    (Recorded /\ conn = "open" /\ c_pc = "idle") =>
        last.calls[2].toks \subseteq (up_sub \cap up_full)

\* C18: a command of the expected shape whose action is not SUBSCRIBE, or
\* has no action, is ignored: no exception, no upstream call, the registry
\* as before, the listener back at the head of its loop.
C18_OtherActionIsIgnored ==
    last.other_action =>
        /\ last.cls = "ignore"
        /\ last.calls = <<>>
        /\ subscribed_tokens = last.before
        /\ last.done /\ l_pc = "idle"

C18_Witness ==
    /\ last.other_action
    /\ conn = "open" /\ c_pc = "idle"
    /\ last.before # {}

\* C19: every token of the registry was passed to a subscribe call and to a
\* set_mode call of the listener that both returned.
C19_RegistryTokensWereSubscribed ==
    subscribed_tokens \subseteq covered

C19_Witness ==
    /\ subscribed_tokens = Tokens
    /\ l_pc = "idle"

\* C20: when an upstream call of the listener has raised, the registry is
\* as it was before the command, and the listener is back at the head of
\* its loop.
C20_FailedUpstreamCallLeavesRegistry ==
    (\E k \in DOMAIN last.calls : ~last.calls[k].ok) =>
        /\ subscribed_tokens = last.before
        /\ last.done /\ l_pc = "idle"

C20_Witness ==
    /\ Len(last.calls) = 2
    /\ last.calls[1].ok /\ ~last.calls[2].ok
    /\ last.before # {}

(***************************************************************************)
(* Further properties of the tick path (checked under SpecTicks).          *)
(***************************************************************************)
\* json.dumps raises on some tick of the batch
Fails(ticks) == \E j \in DOMAIN ticks : ~ticks[j].serializable

\* C16: a step of on_ticks sends the writes and publishes of its batch in
\* one execute, after the last tick was queued: the store moves from its
\* value before the batch to its value after all of the batch's commands,
\* which number one publish per tick and one write per priced tick; a batch
\* with a tick that cannot be processed sends nothing and leaves the store
\* as it was.
C16_BatchIsSentAsOneUnit ==
    [][(conn = "open" /\ c_pc = "idle" /\ conn' = "open") =>
         IF Fails(batch'.ticks)
         THEN wire' = <<>> /\ kv' = kv /\ ~batch'.completed
         ELSE /\ batch'.completed
              /\ Len(Publishes(wire')) = Len(batch'.ticks)
              /\ Len(Sets(wire')) = Len(Priced(batch'.ticks))
              /\ kv' = execute(wire', kv)]_vars

\* a batch whose first tick is priced and whose second cannot be encoded:
\* nothing was sent, the first tick's price is not in the store
C16_Witness ==
    /\ ~batch.completed
    /\ Len(batch.ticks) = 2
    /\ batch.ticks[1].serializable /\ HasPrice(batch.ticks[1])
    /\ ~batch.ticks[2].serializable
    /\ wire = <<>>
    /\ LTPKey(batch.ticks[1].instrument_token) \notin DOMAIN kv

\* position in cmds of its i-th PUBLISH
PublishPos(cmds, i) ==
    CHOOSE p \in DOMAIN cmds :
        cmds[p].op = "PUBLISH" /\ Len(Publishes(SubSeq(cmds, 1, p))) = i

====
